---- MODULE Spec2Model ----
(***************************************************************************)
(* Model of the active-dreaming memory subsystem: the dual-collection      *)
(* VectorStore, the sandboxed Executor and the Dreamer consolidation loop. *)
(*                                                                         *)
(* Spec          the repository as LifelongAgent wires it: the Dreamer     *)
(*               reads the records VectorStore._format_results builds.     *)
(* SpecInjected  the same Dreamer code driven by a store whose query       *)
(*               records carry the "embedding" key that dream() reads      *)
(*               (the record shape of spec section 4.1).                   *)
(* SpecStore     the VectorStore through its whole interface, add_rule     *)
(*               included.                                                 *)
(* SpecFetch     the fetch of dream() over stores holding more failures    *)
(*               than the fetch window.                                    *)
(* SpecExecutor  the wake phase: Executor.execute step by step, and the    *)
(*               recording of the attempt.                                 *)
(***************************************************************************)
EXTENDS Integers, Sequences, FiniteSets, TLC

VARIABLES
    episodic,               \* VectorStore.episodic: records in insertion order
    semantic,               \* VectorStore.semantic: records in insertion order
    next_id,                \* number of ids handed out so far (uuid4 is fresh)
    total_consolidations,   \* Dreamer.total_consolidations
    false_consolidations,   \* Dreamer.false_consolidations
    pc,                     \* position of the running dream() call, "idle" if none
    failures,               \* dream(): local failures
    clusters,               \* dream(): local clusters (one label per failure)
    pending,                \* dream(): cluster ids the for loop has not visited yet
    cluster_id,             \* dream(): loop variable
    rule_candidate,         \* dream(): local rule_candidate
    dream_scenario,         \* dream(): local dream_scenario
    verified,               \* dream(): local verified
    result,                 \* how the dream() call just made ended
    calls,                  \* its oracle / verifier / add_rule calls, in order
    before,                 \* the store and counters at its entry (or at the
                            \* entry of the clear() just made)
    stats,                  \* the value get_consolidation_stats() just returned
    last_call,              \* the VectorStore call just made and what it returned
    exec,                   \* the Executor.execute call in progress or just made
    agent                   \* the LifelongAgent: its switch, and its run_task or
                            \* the adapter's learn call in progress or just made

vars == <<episodic, semantic, next_id, total_consolidations, false_consolidations,
          pc, failures, clusters, pending, cluster_id, rule_candidate,
          dream_scenario, verified, result, calls, before, stats, last_call, exec, agent>>

---------------------------------------------------------------------------
(* Bounds of the model.                                                    *)

MaxAdds == 4
MaxConsolidations == 2
\* sizes of the two runs of attempts in a filled store
MaxOlder == 2
MaxNewer == 21
\* copies of one failure text in a store of repeated failures
MaxCopies == 2
\* failures in a store of repeated failures
MaxPoints == 7
\* largest min_samples a clustering is run with
MaxMinPts == 4
\* execute calls of one host process that can be in progress together
MaxCalls == 2

---------------------------------------------------------------------------
(* Program constants.                                                      *)

\* Dreamer.epsilon = 0.3, kept as the fraction EpsilonNum / EpsilonDen
EpsilonNum == 3
EpsilonDen == 10
min_pts == 2
\* n_results of the fetch in dream()
FetchWindow == 20
NOISE == -1

SentinelRule == "Error abstracting rule."
SentinelScenario == "print('Error generating dream')"

---------------------------------------------------------------------------
(* Inputs: episode texts, oracle answers.                                  *)

Texts == {"ta", "tb", "tc"}
\* the task attempts the agent records: three failing ones and a successful one
Attempts ==
    {[text |-> t, outcome |-> "FAILURE"] : t \in Texts}
        \cup {[text |-> "ta", outcome |-> "SUCCESS"]}

\* The embedding function (text -> vector), fixed per text; the vectors stand
\* for directions (the unit vectors the embedder produces).
embed(text) ==
    CASE text = "ta" -> <<1, 0>>
      [] text = "tb" -> <<1, 1>>
      [] text = "tc" -> <<-1, 0>>
      [] text = "td" -> <<5, 3>>
      [] text = "te" -> <<5, -3>>
      [] text = "tf" -> <<1, 3>>
      [] OTHER       -> <<0, 1>>

\* the query and the where filter of the fetch in dream()
QueryText == "failure error"
FailureFilter == [outcome |-> "FAILURE"]

Dot(a, b) == a[1] * b[1] + a[2] * b[2]

\* cosine similarity of a and b is at least num/den (den > 0), in integers
CosAtLeast(a, b, num, den) ==
    LET d  == Dot(a, b)
        nn == Dot(a, a) * Dot(b, b)
    IN  IF num >= 0
        THEN d >= 0 /\ den * den * d * d >= num * num * nn
        ELSE d >= 0 \/ den * den * d * d <= num * num * nn

\* cosine distance 1 - cos(a, b) <= num/den
CosineWithin(a, b, num, den) == CosAtLeast(a, b, den - num, den)

\* cosine distance of a to q is strictly smaller than that of b to q
Closer(a, b, q) ==
    LET da == Dot(a, q)
        db == Dot(b, q)
        na == Dot(a, a)
        nb == Dot(b, b)
    IN  \* cos(a,q) > cos(b,q)  <=>  da/sqrt(na) > db/sqrt(nb)
        IF da >= 0 /\ db < 0 THEN TRUE
        ELSE IF da < 0 /\ db >= 0 THEN FALSE
        ELSE IF da >= 0 THEN da * da * nb > db * db * na
        ELSE da * da * nb < db * db * na

---------------------------------------------------------------------------
(* DBSCAN (sklearn.cluster.DBSCAN, metric = cosine) on a sequence of       *)
(* embeddings: one label per point, NOISE for points in no cluster.        *)

\* a neighbourhood of the points farther away than the radius
NeighboursBeyond(embs, i, num, den) ==
    {i} \cup {j \in 1..Len(embs) : ~CosineWithin(embs[i], embs[j], num, den)}

Neighbours(embs, i, num, den) ==
    {j \in 1..Len(embs) : CosineWithin(embs[i], embs[j], num, den)}

IsCore(embs, i, num, den, minPts) ==
    Cardinality(Neighbours(embs, i, num, den)) >= minPts

\* points density-reachable from the set S through still unlabelled points
RECURSIVE Expand(_, _, _, _, _, _)
Expand(embs, labels, S, num, den, minPts) ==
    LET more == UNION {Neighbours(embs, i, num, den) :
                         i \in {s \in S : IsCore(embs, s, num, den, minPts)}}
        T    == S \cup {j \in more : labels[j] = NOISE}
    IN  IF T = S THEN S ELSE Expand(embs, labels, T, num, den, minPts)

RECURSIVE DbscanFrom(_, _, _, _, _, _, _)
DbscanFrom(embs, labels, i, label_num, num, den, minPts) ==
    IF i > Len(embs) THEN labels
    ELSE IF labels[i] # NOISE \/ ~IsCore(embs, i, num, den, minPts)
    THEN DbscanFrom(embs, labels, i + 1, label_num, num, den, minPts)
    ELSE LET C == Expand(embs, labels, {i}, num, den, minPts)
             labelled == [j \in 1..Len(embs) |->
                             IF j \in C THEN label_num ELSE labels[j]]
         IN  DbscanFrom(embs, labelled, i + 1, label_num + 1, num, den, minPts)

\* a DBSCAN left at sklearn's default min_samples = 5
fit_predict_default_min_samples(embs, num, den, minPts) ==
    DbscanFrom(embs, [j \in 1..Len(embs) |-> NOISE], 1, 0, num, den, 5)

fit_predict(embs, num, den, minPts) ==
    DbscanFrom(embs, [j \in 1..Len(embs) |-> NOISE], 1, 0, num, den, minPts)

_cluster_failures(embeddings) ==
    fit_predict(embeddings, EpsilonNum, EpsilonDen, min_pts)

\* set(clusters) - {-1}
unique_clusters(labels) == {labels[i] : i \in 1..Len(labels)} \ {NOISE}

---------------------------------------------------------------------------
(* VectorStore.                                                            *)

\* metadata the agent records with an episode (agent.py run_task)
EpisodeMetadata(outcome) ==
    IF outcome = "FAILURE"
    THEN [outcome |-> "FAILURE", error_type |-> "RuntimeError"]
    ELSE [outcome |-> "SUCCESS"]

\* a stored record: chroma embeds the document when it is added
StoredRecord(id, text, metadata) ==
    [id |-> id, content |-> text, embedding |-> embed(text), metadata |-> metadata]

\* exact key/value match of a where filter (the empty filter is None)
NoFilter == [k \in {} |-> ""]
Matches(metadata, where) ==
    \A k \in DOMAIN where : k \in DOMAIN metadata /\ metadata[k] = where[k]

\* i comes before j in the answer: smaller distance first, then insertion order
Before(coll, i, j, q) ==
    \/ Closer(coll[i].embedding, coll[j].embedding, q)
    \/ /\ ~Closer(coll[j].embedding, coll[i].embedding, q)
       /\ i < j

RECURSIVE Ranked(_, _, _)
Ranked(coll, S, q) ==
    IF S = {} THEN <<>>
    ELSE LET first == CHOOSE i \in S : \A j \in S \ {i} : Before(coll, i, j, q)
         IN  <<first>> \o Ranked(coll, S \ {first}, q)

Take(seq, n) == SubSeq(seq, 1, IF Len(seq) < n THEN Len(seq) ELSE n)

\* the distance chroma reports for unit-length embeddings (default l2 space):
\* 2 - 2 * dot / sqrt(norm2), kept as its two terms; it orders as cosine distance
Distance(a, q) == [dot |-> Dot(a, q), norm2 |-> Dot(a, a) * Dot(q, q)]

\* the positions chroma selects: the n_results nearest records matching where
nearest(coll, query, n_results, where) ==
    Take(Ranked(coll, {i \in 1..Len(coll) : Matches(coll[i].metadata, where)},
                embed(query)),
         n_results)

\* collection.query(query_texts=[query], n_results, where): chroma's answer, the
\* rows of documents / metadatas / distances (embeddings are not included)
collection_query(coll, query, n_results, where) ==
    LET hits == nearest(coll, query, n_results, where)
    IN  [documents  |-> [k \in 1..Len(hits) |-> coll[hits[k]].content],
         metadatas  |-> [k \in 1..Len(hits) |-> coll[hits[k]].metadata],
         distances  |-> [k \in 1..Len(hits) |->
                            Distance(coll[hits[k]].embedding, embed(query))]]

_format_results(results) ==
    [i \in 1..Len(results.documents) |->
        [content  |-> results.documents[i],
         metadata |-> results.metadatas[i],
         distance |-> results.distances[i]]]

\* a query_episodic that does not hand its where filter to the collection
query_episodic_unfiltered(coll, query, n_results, where) ==
    _format_results(collection_query(coll, query, n_results, NoFilter))

query_episodic(coll, query, n_results, where) ==
    _format_results(collection_query(coll, query, n_results, where))

\* a query_episodic answering in the record shape of spec section 4.1,
\* {content, metadata, embedding, distance}
query_episodic_with_embedding(coll, query, n_results, where) ==
    LET hits == nearest(coll, query, n_results, where)
    IN  [k \in 1..Len(hits) |->
            [content   |-> coll[hits[k]].content,
             metadata  |-> coll[hits[k]].metadata,
             embedding |-> coll[hits[k]].embedding,
             distance  |-> Distance(coll[hits[k]].embedding, embed(query))]]

query_semantic(coll, query, n_results) ==
    _format_results(collection_query(coll, query, n_results, NoFilter))

\* the metadata dream() stores with a rule
RuleMetadata(size, cid) ==
    [source |-> "dream_consolidation", verified |-> TRUE,
     cluster_size |-> size, cluster_id |-> cid]

---------------------------------------------------------------------------
(* Executor.                                                               *)

OkScenario == "print(\"ok\")"
FailingScenario == "raise SystemExit(1)"
HangingScenario == "while True: pass"
Scenarios == {OkScenario, FailingScenario, HangingScenario}
\* code that writes to stdout and then dies with a traceback on stderr
NoisyFailingCode == "print(1); raise ValueError"
\* the codes handed to execute: dream scenarios and the agent's task code
Codes == Scenarios \cup {SentinelScenario, NoisyFailingCode}

\* what the spawned interpreter does with a code
Behaviour(code) ==
    CASE code \in {FailingScenario, NoisyFailingCode} -> "exit1"
      [] code = HangingScenario -> "timeout"
      [] OTHER                  -> "exit0"

\* the CompletedProcess subprocess.run returns for a code that terminates;
\* stdout and stderr are sequences of chunks of text
CompletedProcess(code) ==
    [returncode |-> IF Behaviour(code) = "exit0" THEN 0 ELSE 1,
     stdout     |-> CASE code = OkScenario       -> <<"ok">>
                      [] code = SentinelScenario -> <<"Error generating dream">>
                      [] code = NoisyFailingCode -> <<"1">>
                      [] OTHER                   -> <<>>,
     stderr     |-> IF Behaviour(code) = "exit1" THEN <<"Traceback">> ELSE <<>>]

\* the exceptions of the environment: open/write of the temp file, and
\* subprocess.run failing to launch the interpreter
StagingError == "[Errno 13] Permission denied"
LaunchError == "[Errno 12] Cannot allocate memory"

\* an on_completed that reports success whatever the return code
on_completed_ignoring_returncode(process) ==
    [raised |-> FALSE, success |-> TRUE,
     output |-> process.stdout \o process.stderr, return_code |-> process.returncode]

\* lines 24-34: the record built from the CompletedProcess
on_completed(process) ==
    [raised |-> FALSE, success |-> process.returncode = 0,
     output |-> process.stdout \o process.stderr, return_code |-> process.returncode]

\* an on_timeout that reports the timeout with return code 0
on_timeout_returning_zero ==
    [raised |-> FALSE, success |-> FALSE, output |-> <<"Execution Timed Out">>,
     return_code |-> 0]

\* lines 36-41: except subprocess.TimeoutExpired
on_timeout ==
    [raised |-> FALSE, success |-> FALSE, output |-> <<"Execution Timed Out">>,
     return_code |-> -1]

\* lines 42-47: except Exception as e
on_exception(e) ==
    [raised |-> FALSE, success |-> FALSE, output |-> <<e>>, return_code |-> -1]

\* an exception that leaves execute: no record is returned
propagates(e) ==
    [raised |-> TRUE, success |-> FALSE, output |-> <<e>>, return_code |-> -1]

\* Executor.execute(code): every way one call can end.  The staging of the temp
\* file (open, write) is outside the try block and raises to the caller; what
\* subprocess.run raises is caught and reported.
execute(code) ==
    {  propagates(StagingError),
       on_exception(LaunchError),
       IF Behaviour(code) = "timeout"
       THEN on_timeout
       ELSE on_completed(CompletedProcess(code)) }

---------------------------------------------------------------------------
(* Completion oracle: an answer of the client, or an exception.            *)

CandidateRule == "IF c THEN a BECAUSE i"
Fence == "[fence python]"
FenceEnd == "[fence]"

OracleError == [ok |-> FALSE, content |-> <<>>]
RuleAnswers == {[ok |-> TRUE, content |-> <<CandidateRule>>], OracleError}
ScenarioAnswers ==
    {[ok |-> TRUE, content |-> <<c>>] : c \in Scenarios}
        \cup {[ok |-> TRUE, content |-> <<Fence, OkScenario, FenceEnd>>], OracleError}

\* the two code.replace calls that drop the markdown fences, and strip()
StripFences(content) == SelectSeq(content, LAMBDA t : t # Fence /\ t # FenceEnd)

_abstract_rule(answer) ==
    IF answer.ok THEN answer.content[1] ELSE SentinelRule

_generate_dream_scenario(answer) ==
    IF answer.ok THEN StripFences(answer.content)[1] ELSE SentinelScenario

\* a _verify_rule that accepts whatever the execution reported
verify_rule_ignoring_success(execution) == TRUE

\* _verify_rule: the scenario's success flag decides
_verify_rule(execution) == execution.success

---------------------------------------------------------------------------
(* Dreamer.                                                                *)

store == <<episodic, semantic, next_id>>
counters == <<total_consolidations, false_consolidations>>
locals == <<failures, clusters, pending, cluster_id, rule_candidate,
            dream_scenario, verified>>

Snapshot ==
    [episodic |-> episodic, semantic |-> semantic,
     total |-> total_consolidations, false |-> false_consolidations]

NoStats == [returned |-> FALSE]
NoAnswer == [op |-> "none", args |-> <<>>, value |-> <<>>]
NoExec == [pc |-> "idle", code |-> "", file |-> FALSE, proc |-> "none",
           runs |-> 0, ret |-> on_exception("")]

\* the caller is between two calls
\* the LifelongAgent as constructed by default (agent.py:10), no call made yet:
\* op and at are the entry point called last and its position, success the
\* executor's (or the benchmark's) verdict, value what the call returned
NoAgent == [enable_sleep |-> TRUE, op |-> "none", at |-> "idle",
            success |-> FALSE, value |-> "none", added |-> 0]

Idle == pc = "idle" /\ exec.pc \in {"idle", "done"}
NoSnapshot == [episodic |-> <<>>, semantic |-> <<>>, total |-> 0, false |-> 0]

\* result, calls, before and stats describe the latest call only: the next
\* operation of the caller starts from a clean record
Forget ==
    /\ result' = "none"
    /\ calls' = <<>>
    /\ before' = NoSnapshot
    /\ stats' = NoStats
    /\ last_call' = NoAnswer
    /\ exec' = NoExec
    /\ UNCHANGED agent

\* a new Dreamer, no call made yet
Fresh ==
    /\ total_consolidations = 0
    /\ false_consolidations = 0
    /\ pc = "idle"
    /\ failures = <<>>
    /\ clusters = <<>>
    /\ pending = {}
    /\ cluster_id = NOISE
    /\ rule_candidate = ""
    /\ dream_scenario = ""
    /\ verified = FALSE
    /\ result = "none"
    /\ calls = <<>>
    /\ before = NoSnapshot
    /\ stats = NoStats
    /\ last_call = NoAnswer
    /\ exec = NoExec
    /\ agent = NoAgent

Init ==
    /\ episodic = <<>>
    /\ semantic = <<>>
    /\ next_id = 0
    /\ Fresh

\* dream() ends (a return, or an exception leaving it): its locals are gone
Leave(how) ==
    /\ pc' = "idle"
    /\ result' = how
    /\ failures' = <<>>
    /\ clusters' = <<>>
    /\ pending' = {}
    /\ cluster_id' = NOISE
    /\ rule_candidate' = ""
    /\ dream_scenario' = ""
    /\ verified' = FALSE

Logged(op, ok, raised) ==
    Append(calls, [op |-> op, cluster |-> cluster_id, ok |-> ok, raised |-> raised])

\* an add_episode that gives every episode the same id
add_episode_with_fixed_id(text, outcome) ==
    /\ Idle
    /\ next_id < MaxAdds
    /\ episodic' = Append(episodic, StoredRecord(1, text, EpisodeMetadata(outcome)))
    /\ next_id' = next_id + 1
    /\ Forget
    /\ UNCHANGED <<semantic, counters, pc, locals>>

\* VectorStore.add_episode, as the agent calls it between consolidation runs
add_episode(text, outcome) ==
    /\ Idle
    /\ next_id < MaxAdds
    /\ episodic' = Append(episodic,
                          StoredRecord(next_id + 1, text, EpisodeMetadata(outcome)))
    /\ next_id' = next_id + 1
    /\ Forget
    /\ UNCHANGED <<semantic, counters, pc, locals>>

AddEpisode == \E a \in Attempts : add_episode(a.text, a.outcome)

\* a clear that resets the episodic collection only
clear_episodic_only ==
    /\ Idle
    /\ episodic' = <<>>
    /\ before' = Snapshot
    /\ last_call' = [op |-> "clear", args |-> <<>>, value |-> <<>>]
    /\ result' = "none"
    /\ calls' = <<>>
    /\ stats' = NoStats
    /\ exec' = NoExec
    /\ UNCHANGED agent
    /\ UNCHANGED <<semantic, next_id, counters, pc, locals>>

\* a clear that also resets the Dreamer's counters
clear_resetting_counters ==
    /\ Idle
    /\ episodic' = <<>>
    /\ semantic' = <<>>
    /\ total_consolidations' = 0
    /\ false_consolidations' = 0
    /\ before' = Snapshot
    /\ last_call' = [op |-> "clear", args |-> <<>>, value |-> <<>>]
    /\ result' = "none"
    /\ calls' = <<>>
    /\ stats' = NoStats
    /\ exec' = NoExec
    /\ UNCHANGED agent
    /\ UNCHANGED <<next_id, pc, locals>>

\* VectorStore.clear: both collections are deleted and created again
clear ==
    /\ Idle
    /\ episodic' = <<>>
    /\ semantic' = <<>>
    /\ before' = Snapshot
    /\ last_call' = [op |-> "clear", args |-> <<>>, value |-> <<>>]
    /\ result' = "none"
    /\ calls' = <<>>
    /\ stats' = NoStats
    /\ exec' = NoExec
    /\ UNCHANGED agent
    /\ UNCHANGED <<next_id, counters, pc, locals>>

\* a dream() started without waiting for the run in progress to return
dream_fetch_while_running(fetched) ==
    /\ total_consolidations < MaxConsolidations
    /\ before' = Snapshot
    /\ calls' = <<>>
    /\ stats' = NoStats
    /\ last_call' = NoAnswer
    /\ exec' = NoExec
    /\ UNCHANGED agent
    /\ IF Len(fetched) < min_pts
       THEN Leave("returned")
       ELSE /\ pc' = "extract"
            /\ result' = "running"
            /\ failures' = fetched
            /\ UNCHANGED <<clusters, pending, cluster_id, rule_candidate,
                           dream_scenario, verified>>
    /\ UNCHANGED <<store, counters>>

\* dream(), lines 31-35: fetch, and return when the failures are too few
dream_fetch(fetched) ==
    /\ Idle
    /\ total_consolidations < MaxConsolidations
    /\ before' = Snapshot
    /\ calls' = <<>>
    /\ stats' = NoStats
    /\ last_call' = NoAnswer
    /\ exec' = NoExec
    /\ UNCHANGED agent
    /\ IF Len(fetched) < min_pts
       THEN Leave("returned")
       ELSE /\ pc' = "extract"
            /\ result' = "running"
            /\ failures' = fetched
            /\ UNCHANGED <<clusters, pending, cluster_id, rule_candidate,
                           dream_scenario, verified>>
    /\ UNCHANGED <<store, counters>>

DreamFetch ==
    dream_fetch(query_episodic(episodic, QueryText, FetchWindow, FailureFilter))

\* line 31 when the store cannot be reached: query_episodic raises, no handler
\* in dream() catches it and the call ends before any other step
DreamFetchUnavailable ==
    /\ Idle
    /\ total_consolidations < MaxConsolidations
    /\ before' = Snapshot
    /\ calls' = <<[op |-> "query_episodic", cluster |-> NOISE,
                   ok |-> FALSE, raised |-> TRUE]>>
    /\ stats' = NoStats
    /\ last_call' = NoAnswer
    /\ exec' = NoExec
    /\ UNCHANGED agent
    /\ Leave("StoreError")
    /\ UNCHANGED <<store, counters>>

DreamFetchInjected ==
    dream_fetch(query_episodic_with_embedding(episodic, QueryText, FetchWindow,
                                              FailureFilter))

\* dream(), lines 40-48: f['embedding'] of every failure, clustering, and the
\* return when no cluster is found
DreamCluster ==
    /\ pc = "extract"
    /\ IF \E i \in 1..Len(failures) : "embedding" \notin DOMAIN failures[i]
       THEN Leave("KeyError")
       ELSE LET labels == _cluster_failures(
                              [i \in 1..Len(failures) |-> failures[i].embedding])
            IN  IF unique_clusters(labels) = {}
                THEN Leave("returned")
                ELSE /\ clusters' = labels
                     /\ pending' = unique_clusters(labels)
                     /\ pc' = "loop"
                     /\ UNCHANGED <<failures, cluster_id, rule_candidate,
                                    dream_scenario, verified, result>>
    /\ UNCHANGED <<store, counters, calls, before, stats, last_call, exec, agent>>

\* the largest element of a set of cluster ids
Largest(S) == CHOOSE x \in S : \A y \in S : x >= y

\* the for loop over unique_clusters (a set of small ints iterates ascending),
\* and the report after the last cluster
Min(S) == CHOOSE x \in S : \A y \in S : x <= y

DreamLoop ==
    /\ pc = "loop"
    /\ IF pending = {}
       THEN Leave("returned")
       ELSE /\ cluster_id' = Min(pending)
            /\ pending' = pending \ {Min(pending)}
            /\ pc' = "abstract"
            /\ UNCHANGED <<failures, clusters, rule_candidate, dream_scenario,
                           verified, result>>
    /\ UNCHANGED <<store, counters, calls, before, stats, last_call, exec, agent>>

\* cluster_failures taken to be every fetched failure, whatever its label
fetched_indices == 1..Len(clusters)

\* cluster_failures of the current cluster, as positions in failures
cluster_indices == {i \in 1..Len(clusters) : clusters[i] = cluster_id}

\* line 58: the oracle answers or fails; a failure yields the sentinel rule
AbstractRule ==
    /\ pc = "abstract"
    /\ \E answer \in RuleAnswers :
          /\ rule_candidate' = _abstract_rule(answer)
          /\ calls' = Logged("abstract", answer.ok, FALSE)
    /\ pc' = "dream"
    /\ UNCHANGED <<store, counters, failures, clusters, pending, cluster_id,
                   dream_scenario, verified, result, before, stats, last_call, exec, agent>>

\* line 62
GenerateDreamScenario ==
    /\ pc = "dream"
    /\ \E answer \in ScenarioAnswers :
          /\ dream_scenario' = _generate_dream_scenario(answer)
          /\ calls' = Logged("dream", answer.ok, FALSE)
    /\ pc' = "verify"
    /\ UNCHANGED <<store, counters, failures, clusters, pending, cluster_id,
                   rule_candidate, verified, result, before, stats, last_call, exec, agent>>

\* lines 66-67: the verifier call; what execute raises leaves dream(), and
\* total_consolidations is counted once the call has returned
VerifyRule ==
    /\ pc = "verify"
    /\ \E execution \in execute(dream_scenario) :
          /\ calls' = Logged("verify", execution.success, execution.raised)
          /\ IF execution.raised
             THEN /\ Leave("raised")
                  /\ UNCHANGED counters
             ELSE /\ verified' = _verify_rule(execution)
                  /\ total_consolidations' = total_consolidations + 1
                  /\ pc' = "commit"
                  /\ UNCHANGED <<false_consolidations, failures, clusters, pending,
                                 cluster_id, rule_candidate, dream_scenario, result>>
    /\ UNCHANGED <<store, before, stats, last_call, exec, agent>>

\* an add_rule that writes the rule to the episodic collection
add_rule_to_episodic(rule, metadata) ==
    /\ episodic' = Append(episodic, StoredRecord(next_id + 1, rule, metadata))
    /\ next_id' = next_id + 1
    /\ UNCHANGED semantic

\* VectorStore.add_rule
add_rule(rule, metadata) ==
    /\ semantic' = Append(semantic, StoredRecord(next_id + 1, rule, metadata))
    /\ next_id' = next_id + 1
    /\ UNCHANGED episodic

\* lines 69-80
CommitRule ==
    /\ pc = "commit"
    /\ verified
    /\ add_rule(rule_candidate, RuleMetadata(Cardinality(cluster_indices), cluster_id))
    /\ calls' = Logged("add_rule", TRUE, FALSE)
    /\ pc' = "loop"
    /\ UNCHANGED <<counters, locals, result, before, stats, last_call, exec, agent>>

\* an unreachable store at the commit, caught and booked as a rejected rule
CommitRuleUnavailableCounted ==
    /\ pc = "commit"
    /\ verified
    /\ calls' = Logged("add_rule", FALSE, TRUE)
    /\ false_consolidations' = false_consolidations + 1
    /\ pc' = "loop"
    /\ UNCHANGED <<store, total_consolidations, locals, result, before, stats,
                   last_call, exec, agent>>

\* lines 69-80 when the store cannot be reached: add_rule raises after line 67
\* has counted the cluster, nothing is stored and the exception leaves dream()
CommitRuleUnavailable ==
    /\ pc = "commit"
    /\ verified
    /\ calls' = Logged("add_rule", FALSE, TRUE)
    /\ Leave("StoreError")
    /\ UNCHANGED <<store, counters, before, stats, last_call, exec, agent>>

\* VectorStore.add_rule called on its own, with a rule and the metadata the
\* commit step gives it
AddRule ==
    /\ Idle
    /\ next_id < MaxAdds
    /\ add_rule(CandidateRule, RuleMetadata(min_pts, 0))
    /\ Forget
    /\ UNCHANGED <<counters, pc, locals>>

\* lines 81-83
RejectRule ==
    /\ pc = "commit"
    /\ ~verified
    /\ false_consolidations' = false_consolidations + 1
    /\ pc' = "loop"
    /\ UNCHANGED <<store, total_consolidations, locals, result, calls, before, stats, last_call, exec, agent>>

\* a get_consolidation_stats that reports the plain ratio false / total
consolidation_stats_as_ratio ==
    [returned |-> TRUE,
     total_consolidations |-> total_consolidations,
     false_consolidations |-> false_consolidations,
     false_consolidation_rate |->
        IF total_consolidations > 0
        THEN [num |-> false_consolidations, den |-> total_consolidations]
        ELSE [num |-> 0, den |-> 1]]

\* Dreamer.get_consolidation_stats: the rate is the float
\* false / total * 100, kept as the fraction num / den
get_consolidation_stats ==
    [returned |-> TRUE,
     total_consolidations |-> total_consolidations,
     false_consolidations |-> false_consolidations,
     false_consolidation_rate |->
        IF total_consolidations > 0
        THEN [num |-> false_consolidations * 100, den |-> total_consolidations]
        ELSE [num |-> 0, den |-> 1]]

GetStats ==
    /\ Idle
    /\ stats' = get_consolidation_stats
    /\ result' = "none"
    /\ calls' = <<>>
    /\ before' = NoSnapshot
    /\ last_call' = NoAnswer
    /\ exec' = NoExec
    /\ UNCHANGED agent
    /\ UNCHANGED <<store, counters, pc, locals>>

---------------------------------------------------------------------------
(* Reads of the store, as HybridRetriever and the Dreamer make them.       *)

\* query texts, n_results and where filters of the callers
Queries == {QueryText, "ta"}
Limits == {1, 3}
Filters == {NoFilter, FailureFilter, [outcome |-> "SUCCESS"]}

\* a read that also stores the query text as an episode
read_recording_query(op, args, value) ==
    /\ Idle
    /\ next_id < MaxAdds
    /\ last_call' = [op |-> op, args |-> args, value |-> value]
    /\ episodic' = Append(episodic,
                          StoredRecord(next_id + 1, args[1], [outcome |-> "QUERY"]))
    /\ next_id' = next_id + 1
    /\ result' = "none"
    /\ calls' = <<>>
    /\ before' = NoSnapshot
    /\ stats' = NoStats
    /\ exec' = NoExec
    /\ UNCHANGED agent
    /\ UNCHANGED <<semantic, counters, pc, locals>>

\* a read: the collections are not written
Read(op, args, value) ==
    /\ Idle
    /\ last_call' = [op |-> op, args |-> args, value |-> value]
    /\ result' = "none"
    /\ calls' = <<>>
    /\ before' = NoSnapshot
    /\ stats' = NoStats
    /\ exec' = NoExec
    /\ UNCHANGED agent
    /\ UNCHANGED <<store, counters, pc, locals>>

QueryEpisodic ==
    \E q \in Queries, n \in Limits, w \in Filters :
        Read("query_episodic", <<q, n, w>>, query_episodic(episodic, q, n, w))

QuerySemantic ==
    \E q \in Queries, n \in Limits :
        Read("query_semantic", <<q, n>>, query_semantic(semantic, q, n))

\* HybridRetriever.retrieve_context(query, error_type): the parts it joins with
\* newlines; no error_type ("" stands for None) means no where filter
NoErrorType == ""
RulesLabel == "--- ESTABLISHED RULES ---"
EpisodesLabel == "\n--- RELEVANT PAST EXPERIENCES ---"

\* the parts of one section: its label, then one part per record
Section(label, parts) == IF parts # <<>> THEN <<(<<label>>)>> \o parts ELSE <<>>
EpisodePart(e) ==
    <<"EPISODE", e.content, "OUTCOME",
      IF "outcome" \in DOMAIN e.metadata THEN e.metadata.outcome ELSE "Unknown">>

\* a retrieve_context that does not hand the error type to the episodic query
retrieve_context_unfiltered(epi, sem, query, error_type) ==
    LET rules == query_semantic(sem, query, 2)
        episodes == query_episodic(epi, query, 3, NoFilter)
    IN  Section(RulesLabel, [i \in 1..Len(rules) |-> <<"RULE", rules[i].content>>])
           \o Section(EpisodesLabel,
                      [i \in 1..Len(episodes) |-> EpisodePart(episodes[i])])

retrieve_context(epi, sem, query, error_type) ==
    LET rules == query_semantic(sem, query, 2)
        where_filter == IF error_type # NoErrorType
                        THEN [error_type |-> error_type] ELSE NoFilter
        episodes == query_episodic(epi, query, 3, where_filter)
        rule_parts ==
            Section(RulesLabel,
                    [i \in 1..Len(rules) |-> <<"RULE", rules[i].content>>])
        episode_parts ==
            Section(EpisodesLabel,
                    [i \in 1..Len(episodes) |-> EpisodePart(episodes[i])])
    IN  rule_parts \o episode_parts

\* the agent retrieves context for a task (agent.py run_task, no error_type) or
\* for an error type
Tasks == {"ta"}
ErrorTypes == {NoErrorType, "RuntimeError"}

\* a retrieval that also stores the task text as an episode
RetrieveContextRecording ==
    \E task \in Tasks, error_type \in ErrorTypes :
        read_recording_query("retrieve_context", <<task, error_type>>,
                             retrieve_context(episodic, semantic, task, error_type))

RetrieveContext ==
    \E task \in Tasks, error_type \in ErrorTypes :
        Read("retrieve_context", <<task, error_type>>,
             retrieve_context(episodic, semantic, task, error_type))

---------------------------------------------------------------------------
(* One Executor.execute(code) call, step by step.                          *)

\* lines 12-14: the temp file is opened and written before the try block; an
\* exception of open (no file) or of write (the file is left) leaves execute
ExecuteStage ==
    /\ Idle
    /\ \E code \in Codes :
          \/ exec' = [pc |-> "staged", code |-> code, file |-> TRUE,
                      proc |-> "none", runs |-> 0, ret |-> NoExec.ret]
          \/ \E created \in BOOLEAN :
                exec' = [pc |-> "done", code |-> code, file |-> created,
                         proc |-> "none", runs |-> 0,
                         ret |-> propagates(StagingError)]
    /\ result' = "none"
    /\ calls' = <<>>
    /\ before' = NoSnapshot
    /\ stats' = NoStats
    /\ last_call' = NoAnswer
    /\ UNCHANGED <<store, counters, pc, locals, agent>>

\* lines 17-22: subprocess.run launches the interpreter on the temp file, or
\* raises what except Exception (lines 42-47) turns into a record; runs counts
\* the calls of subprocess.run made by this execute
ExecuteRun ==
    /\ exec.pc = "staged"
    /\ \/ exec' = [exec EXCEPT !.pc = "running", !.proc = "running",
                               !.runs = @ + 1]
       \/ exec' = [exec EXCEPT !.pc = "handled", !.runs = @ + 1,
                               !.ret = on_exception(LaunchError)]
    /\ UNCHANGED <<store, counters, pc, locals, result, calls, before, stats, last_call, agent>>

\* an executor that runs the code a second time after a failure or a timeout
ProcessEndsRetrying ==
    /\ exec.pc = "running"
    /\ IF Behaviour(exec.code) # "exit0" /\ exec.runs < 2
       THEN exec' = [exec EXCEPT !.pc = "staged",
                                 !.proc = IF Behaviour(exec.code) = "timeout"
                                          THEN "killed" ELSE "exited"]
       ELSE IF Behaviour(exec.code) = "timeout"
       THEN exec' = [exec EXCEPT !.pc = "handled", !.proc = "killed",
                                 !.ret = on_timeout]
       ELSE exec' = [exec EXCEPT !.pc = "handled", !.proc = "exited",
                                 !.ret = on_completed(CompletedProcess(exec.code))]
    /\ UNCHANGED <<store, counters, pc, locals, result, calls, before, stats, last_call, agent>>

\* the interpreter terminates and run returns its CompletedProcess, or the
\* timeout expires: run kills the child, waits for it and raises TimeoutExpired
ProcessEnds ==
    /\ exec.pc = "running"
    /\ IF Behaviour(exec.code) = "timeout"
       THEN exec' = [exec EXCEPT !.pc = "handled", !.proc = "killed",
                                 !.ret = on_timeout]
       ELSE exec' = [exec EXCEPT !.pc = "handled", !.proc = "exited",
                                 !.ret = on_completed(CompletedProcess(exec.code))]
    /\ UNCHANGED <<store, counters, pc, locals, result, calls, before, stats, last_call, agent>>

\* lines 48-50: finally, the temp file is removed, and execute returns
ExecuteFinally ==
    /\ exec.pc = "handled"
    /\ exec' = [exec EXCEPT !.pc = "done", !.file = FALSE]
    /\ UNCHANGED <<store, counters, pc, locals, result, calls, before, stats, last_call, agent>>

---------------------------------------------------------------------------
(* The repository as wired: dream() over VectorStore.query_episodic.  The  *)
(* records it fetches have no "embedding" key, so a cycle ends at line 35  *)
(* or at line 40 and the per-cluster steps are never taken.                *)

Next ==
    \/ AddEpisode
    \/ clear
    \/ DreamFetch
    \/ DreamCluster
    \/ GetStats
    \/ QueryEpisodic
    \/ QuerySemantic
    \/ RetrieveContext

Spec == Init /\ [][Next]_vars

(* The Dreamer over a store whose records carry the embedding.             *)

NextInjected ==
    \/ AddEpisode
    \/ clear
    \/ DreamFetchInjected
    \/ DreamCluster
    \/ DreamLoop
    \/ AbstractRule
    \/ GenerateDreamScenario
    \/ VerifyRule
    \/ CommitRule
    \/ RejectRule
    \/ GetStats

SpecInjected == Init /\ [][NextInjected]_vars

(* The fetch of dream() over stores the agent has filled over many tasks:  *)
(* older attempts of one kind followed by newer attempts of another kind.  *)

Filled(older, k, newer, m) ==
    [i \in 1..(k + m) |->
        LET a == IF i <= k THEN older ELSE newer
        IN  StoredRecord(i, a.text, EpisodeMetadata(a.outcome))]

InitFilled ==
    /\ \E older \in Attempts, newer \in Attempts,
          k \in 0..MaxOlder, m \in 0..MaxNewer :
          /\ episodic = Filled(older, k, newer, m)
          /\ next_id = k + m
    /\ semantic = <<>>
    /\ Fresh

NextFetch ==
    \/ DreamFetch
    \/ DreamCluster

SpecFetch == InitFilled /\ [][NextFetch]_vars

(* The same Dreamer over a store that can become unreachable when dream()  *)
(* fetches and when it commits; the store holds a few attempts of one kind *)
(* followed by a few of another.                                           *)

InitFewAttempts ==
    /\ \E older \in Attempts, newer \in Attempts,
          k \in 0..MaxOlder, m \in 0..MaxOlder :
          /\ episodic = Filled(older, k, newer, m)
          /\ next_id = k + m
    /\ semantic = <<>>
    /\ Fresh

NextUnavailable ==
    \/ DreamFetchInjected
    \/ DreamFetchUnavailable
    \/ DreamCluster
    \/ DreamLoop
    \/ AbstractRule
    \/ GenerateDreamScenario
    \/ VerifyRule
    \/ CommitRule
    \/ CommitRuleUnavailable
    \/ RejectRule

SpecUnavailable == InitFewAttempts /\ [][NextUnavailable]_vars

(* The VectorStore through its whole interface: both add operations, the  *)
(* reads, the bulk reset, and the consolidation run of the wired Dreamer.  *)

NextStore ==
    \/ AddEpisode
    \/ AddRule
    \/ clear
    \/ QuerySemantic
    \/ RetrieveContext
    \/ DreamFetch
    \/ DreamCluster

SpecStore == Init /\ [][NextStore]_vars

(* The clustering of dream() on its own: stores of repeated failures, and  *)
(* Dreamers whose epsilon and min_pts attributes are set to other values.  *)

ClusterTexts == <<"tf", "tg", "ta", "te", "td">>
Epsilons == {[num |-> n, den |-> EpsilonDen] : n \in 1..EpsilonNum}

\* the texts of a store: counts[i] copies of the i-th text, in the order of
\* ClusterTexts or against it
RECURSIVE Repeated(_, _)
Repeated(counts, i) ==
    IF i > Len(ClusterTexts) THEN <<>>
    ELSE [k \in 1..counts[i] |-> ClusterTexts[i]] \o Repeated(counts, i + 1)

Backwards(seq) == [i \in 1..Len(seq) |-> seq[Len(seq) + 1 - i]]

FailuresOf(texts) ==
    [i \in 1..Len(texts) |-> StoredRecord(i, texts[i], EpisodeMetadata("FAILURE"))]

InitRepeated ==
    /\ \E counts \in [1..Len(ClusterTexts) -> 0..MaxCopies], backwards \in BOOLEAN :
          LET texts == IF backwards THEN Backwards(Repeated(counts, 1))
                                    ELSE Repeated(counts, 1)
          IN  /\ Len(texts) <= MaxPoints
              /\ episodic = FailuresOf(texts)
              /\ next_id = Len(texts)
    /\ semantic = <<>>
    /\ Fresh

\* dream() line 40: the embeddings of the failure records, in their order
Embeddings(records) == [i \in 1..Len(records) |-> records[i].embedding]

\* Dreamer._cluster_failures(embeddings) with self.epsilon = eps and
\* self.min_pts = minPts, on the embeddings of the stored failures
ClusterFailures ==
    \E eps \in Epsilons, minPts \in min_pts..MaxMinPts :
        Read("_cluster_failures", <<eps, minPts>>,
             fit_predict(Embeddings(episodic), eps.num, eps.den, minPts))

NextCluster ==
    \/ ClusterFailures

SpecCluster == InitRepeated /\ [][NextCluster]_vars

(* The wake phase of the agent: code is executed, the attempt is recorded. *)

NextExecutor ==
    \/ ExecuteStage
    \/ ExecuteRun
    \/ ProcessEnds
    \/ ExecuteFinally
    \/ AddEpisode

SpecExecutor == Init /\ [][NextExecutor]_vars

(* The LifelongAgent and the benchmark adapter around the wired Dreamer:    *)
(* run_task and learn record the attempt and, on a failure, call sleep(),  *)
(* which runs dream() to its end before the call returns.                  *)

\* the agent is constructed with either value of the switch (agent.py:10,
\* ablation.py:33-36); adapter.agent is a plain attribute, so learn can be
\* called on an adapter holding either agent
InitAgent ==
    /\ episodic = <<>>
    /\ semantic = <<>>
    /\ next_id = 0
    /\ total_consolidations = 0
    /\ false_consolidations = 0
    /\ pc = "idle"
    /\ failures = <<>>
    /\ clusters = <<>>
    /\ pending = {}
    /\ cluster_id = NOISE
    /\ rule_candidate = ""
    /\ dream_scenario = ""
    /\ verified = FALSE
    /\ result = "none"
    /\ calls = <<>>
    /\ before = NoSnapshot
    /\ stats = NoStats
    /\ last_call = NoAnswer
    /\ exec = NoExec
    /\ \E enable_sleep \in BOOLEAN :
          agent = [NoAgent EXCEPT !.enable_sleep = enable_sleep]

\* metadata of the episode learn records (adapter.py:38-45, 49-52)
BenchmarkMetadata(success) ==
    IF success
    THEN [outcome |-> "SUCCESS"]
    ELSE [outcome |-> "FAILURE", error_type |-> "BenchmarkError"]

\* store.add_episode as run_task and learn call it, and the caller's record of
\* earlier calls starting afresh
RecordEpisode(text, metadata) ==
    /\ episodic' = Append(episodic, StoredRecord(next_id + 1, text, metadata))
    /\ next_id' = next_id + 1
    /\ UNCHANGED semantic

\* agent.py:69-72: sleep() is called after a failure when enable_sleep is set
run_task_sleeps_if_enabled(success) == ~success /\ agent.enable_sleep

\* LifelongAgent.run_task up to its return or its call of sleep(): the context
\* is retrieved (a pure read), the code is generated and executed; what execute
\* raises leaves run_task before anything is recorded; otherwise the attempt is
\* recorded as SUCCESS or FAILURE
RunTask ==
    /\ agent.at = "idle"
    /\ Idle
    /\ next_id < MaxAdds
    /\ \E text \in Texts, code \in Codes :
       \E execution \in execute(code) :
          IF execution.raised
          THEN /\ agent' = [agent EXCEPT !.op = "run_task", !.success = FALSE,
                                         !.value = "raised", !.added = 0]
               /\ UNCHANGED store
          ELSE /\ RecordEpisode(text, EpisodeMetadata(IF execution.success
                                                      THEN "SUCCESS" ELSE "FAILURE"))
               /\ agent' = [agent EXCEPT
                     !.op = "run_task",
                     !.success = execution.success,
                     !.added = 1,
                     !.at = IF run_task_sleeps_if_enabled(execution.success)
                            THEN "sleep" ELSE "idle",
                     !.value = IF execution.success THEN "True"
                               ELSE IF run_task_sleeps_if_enabled(execution.success)
                               THEN "none" ELSE "False"]
    /\ result' = "none"
    /\ calls' = <<>>
    /\ before' = NoSnapshot
    /\ stats' = NoStats
    /\ last_call' = NoAnswer
    /\ exec' = NoExec
    /\ UNCHANGED <<counters, pc, locals>>

\* LifelongAgentAdapter.learn up to its return or its call of sleep(): the
\* benchmark's verdict is recorded, and after a failure line 47 calls
\* self.agent.sleep() without looking at enable_sleep
Learn ==
    /\ agent.at = "idle"
    /\ Idle
    /\ next_id < MaxAdds
    /\ \E text \in Texts, success \in BOOLEAN :
          /\ RecordEpisode(text, BenchmarkMetadata(success))
          /\ agent' = [agent EXCEPT
                !.op = "learn",
                !.success = success,
                !.added = 1,
                !.at = IF success THEN "idle" ELSE "sleep",
                !.value = IF success THEN "None" ELSE "none"]
    /\ result' = "none"
    /\ calls' = <<>>
    /\ before' = NoSnapshot
    /\ stats' = NoStats
    /\ last_call' = NoAnswer
    /\ exec' = NoExec
    /\ UNCHANGED <<counters, pc, locals>>

\* LifelongAgent.sleep (agent.py:83-87): dream() is entered
Sleep ==
    /\ agent.at = "sleep"
    /\ result = "none"
    /\ DreamFetch

\* dream() has ended: sleep() returns and the entry point returns (run_task
\* False at line 73, learn None), or the exception of dream() leaves both
SleepReturns ==
    /\ agent.at = "sleep"
    /\ pc = "idle"
    /\ result # "none"
    /\ agent' = [agent EXCEPT
          !.at = "idle",
          !.value = IF result # "returned" THEN "raised"
                    ELSE IF agent.op = "run_task" THEN "False" ELSE "None"]
    /\ UNCHANGED <<store, counters, pc, locals, result, calls, before, stats,
                   last_call, exec>>

NextAgent ==
    \/ RunTask
    \/ Learn
    \/ Sleep
    \/ DreamCluster
    \/ SleepReturns

SpecAgent == InitAgent /\ [][NextAgent]_vars

(* Executor.execute called from several threads of one host process: the  *)
(* calls share the file temp_exec_<pid>.py, which exec.file holds here     *)
(* together with one record per call.                                      *)

NoFile == "(no file)"
Truncated == ""
NoCall == [pc |-> "idle", code |-> "", proc |-> "none", ran |-> "",
           ret |-> on_exception("")]

InitOverlap ==
    /\ exec = [file |-> NoFile, call |-> [k \in 1..MaxCalls |-> NoCall]]
    /\ episodic = <<>>
    /\ semantic = <<>>
    /\ next_id = 0
    /\ total_consolidations = 0
    /\ false_consolidations = 0
    /\ pc = "idle"
    /\ failures = <<>>
    /\ clusters = <<>>
    /\ pending = {}
    /\ cluster_id = NOISE
    /\ rule_candidate = ""
    /\ dream_scenario = ""
    /\ verified = FALSE
    /\ result = "none"
    /\ calls = <<>>
    /\ before = NoSnapshot
    /\ stats = NoStats
    /\ last_call = NoAnswer
    /\ agent = NoAgent

\* what the interpreter spawned on the temp file does: python exits with
\* status 2 when the file is not there
InterpreterResult(ran) ==
    IF ran = NoFile
    THEN [returncode |-> 2, stdout |-> <<>>, stderr |-> <<"can't open file">>]
    ELSE CompletedProcess(ran)

\* lines 12-14 of call k: open(temp_filename, "w") truncates the file of the
\* host process and write puts the code there; open can fail (the file is as
\* it was) and write can fail (the file is left truncated)
OverlapStage(k) ==
    /\ exec.call[k].pc \in {"idle", "done"}
    /\ \E code \in Codes :
          \/ exec' = [file |-> code,
                      call |-> [exec.call EXCEPT ![k] =
                                  [NoCall EXCEPT !.pc = "staged", !.code = code]]]
          \/ \E left \in {exec.file, Truncated} :
                exec' = [file |-> left,
                         call |-> [exec.call EXCEPT ![k] =
                                     [NoCall EXCEPT !.pc = "done", !.code = code,
                                                    !.ret = propagates(StagingError)]]]
    /\ UNCHANGED <<store, counters, pc, locals, result, calls, before, stats, last_call, agent>>

\* lines 17-22 of call k: the interpreter is spawned on temp_filename and reads
\* what the file holds then, or subprocess.run raises
OverlapRun(k) ==
    /\ exec.call[k].pc = "staged"
    /\ \/ exec' = [exec EXCEPT !.call[k].pc = "running", !.call[k].proc = "running",
                               !.call[k].ran = exec.file]
       \/ exec' = [exec EXCEPT !.call[k].pc = "handled",
                               !.call[k].ret = on_exception(LaunchError)]
    /\ UNCHANGED <<store, counters, pc, locals, result, calls, before, stats, last_call, agent>>

\* the process of call k ends, or its timeout expires
OverlapEnds(k) ==
    /\ exec.call[k].pc = "running"
    /\ IF exec.call[k].ran # NoFile /\ Behaviour(exec.call[k].ran) = "timeout"
       THEN exec' = [exec EXCEPT !.call[k].pc = "handled", !.call[k].proc = "killed",
                                 !.call[k].ret = on_timeout]
       ELSE exec' = [exec EXCEPT !.call[k].pc = "handled", !.call[k].proc = "exited",
                                 !.call[k].ret =
                                    on_completed(InterpreterResult(exec.call[k].ran))]
    /\ UNCHANGED <<store, counters, pc, locals, result, calls, before, stats, last_call, agent>>

\* lines 48-50 of call k: the file of the host process is removed if it exists
OverlapFinally(k) ==
    /\ exec.call[k].pc = "handled"
    /\ exec' = [exec EXCEPT !.file = NoFile, !.call[k].pc = "done"]
    /\ UNCHANGED <<store, counters, pc, locals, result, calls, before, stats, last_call, agent>>

NextOverlap ==
    \/ \E k \in 1..MaxCalls : OverlapStage(k)
    \/ \E k \in 1..MaxCalls : OverlapRun(k)
    \/ \E k \in 1..MaxCalls : OverlapEnds(k)
    \/ \E k \in 1..MaxCalls : OverlapFinally(k)

SpecOverlap == InitOverlap /\ [][NextOverlap]_vars

---------------------------------------------------------------------------
(* Vocabulary of the properties.                                           *)

\* a dream() call has just ended
Ended == pc = "idle" /\ result \in {"returned", "KeyError", "raised", "StoreError"}

\* the stored failures one cycle over coll fetches, and the labels clustering
\* gives their stored embeddings
Fetched(coll) == nearest(coll, QueryText, FetchWindow, FailureFilter)
StoredLabels(coll) ==
    _cluster_failures([k \in 1..Len(Fetched(coll)) |-> coll[Fetched(coll)[k]].embedding])
ClustersOf(coll) ==
    IF Len(Fetched(coll)) < min_pts THEN {} ELSE unique_clusters(StoredLabels(coll))

\* positions in the call log of the calls of one kind made for cluster c
Entries(op, c) == {i \in 1..Len(calls) : calls[i].op = op /\ calls[i].cluster = c}
EntriesOf(op) == {i \in 1..Len(calls) : calls[i].op = op}
Processed == {calls[i].cluster : i \in EntriesOf("abstract")}

IsPrefix(s, t) == Len(s) <= Len(t) /\ SubSeq(t, 1, Len(s)) = s

\* the reported distance d1 is strictly smaller than d2
DistanceLess(d1, d2) ==
    IF d1.dot >= 0 /\ d2.dot < 0 THEN TRUE
    ELSE IF d1.dot < 0 /\ d2.dot >= 0 THEN FALSE
    ELSE IF d1.dot >= 0 THEN d1.dot * d1.dot * d2.norm2 > d2.dot * d2.dot * d1.norm2
    ELSE d1.dot * d1.dot * d2.norm2 < d2.dot * d2.dot * d1.norm2

\* positions of the records of coll that match a where filter
Matching(coll, where) == {i \in 1..Len(coll) : Matches(coll[i].metadata, where)}

\* the ids in use in a collection
Ids(coll) == {coll[i].id : i \in 1..Len(coll)}

\* positions of the parts of a retrieved context that start with a given word
PartsOf(context, word) == {i \in 1..Len(context) : context[i][1] = word}

\* positions of the episodes whose error_type is the one asked for
OfErrorType(coll, error_type) ==
    {i \in 1..Len(coll) :
        \/ error_type = NoErrorType
        \/ /\ "error_type" \in DOMAIN coll[i].metadata
           /\ coll[i].metadata.error_type = error_type}

AtMost(n, k) == IF k < n THEN k ELSE n

\* the clustering call recorded in last_call was made with this configuration
ClusteredWith(call, num, den, minPts) ==
    /\ call.op = "_cluster_failures"
    /\ call.args = <<[num |-> num, den |-> den], minPts>>

\* the points of a labelling that lie in some cluster
Members(labels) == {i \in 1..Len(labels) : labels[i] # NOISE}

\* scenario A: all points but the outlier o are pairwise within epsilon of each
\* other, and o is farther than epsilon from every other point
NearDuplicatesAndOutlier(embs, o) ==
    /\ \A i, j \in (1..Len(embs)) \ {o} :
          CosineWithin(embs[i], embs[j], EpsilonNum, EpsilonDen)
    /\ \A i \in (1..Len(embs)) \ {o} :
          ~CosineWithin(embs[o], embs[i], EpsilonNum, EpsilonDen)

\* positions of the n most recently added records of coll with outcome FAILURE
FailurePositions(coll) ==
    {i \in 1..Len(coll) : Matches(coll[i].metadata, FailureFilter)}
MostRecentFailures(coll, n) ==
    {i \in FailurePositions(coll) :
        Cardinality({j \in FailurePositions(coll) : j > i}) < n}

---------------------------------------------------------------------------
C2_ScenarioB ==
    ( /\ Ended
      /\ Cardinality(ClustersOf(before.episodic)) = 1
      /\ \A i \in 1..Len(calls) : calls[i].ok /\ ~calls[i].raised )
    => /\ result = "returned"
       /\ Len(semantic) = Len(before.semantic) + 1
       /\ IsPrefix(before.semantic, semantic)
       /\ semantic[Len(semantic)].metadata.verified = TRUE

(* C3 - scenario C: a fresh Dreamer, one cluster, no verifier call of the  *)
(* cycle succeeds: after the cycle total_consolidations = 1,               *)
(* false_consolidations = 1 and semantic memory has no new record.         *)
C3_ScenarioC ==
    ( /\ Ended
      /\ before.total = 0 /\ before.false = 0
      /\ Cardinality(ClustersOf(before.episodic)) = 1
      /\ \A i \in EntriesOf("verify") : ~calls[i].ok )
    => /\ total_consolidations = 1
       /\ false_consolidations = 1
       /\ semantic = before.semantic

(* C4 - no-op cycle: with fewer than minPts fetched failures, or with no   *)
(* non-noise cluster among them, dream() returns without error, leaves     *)
(* both collections and both counters unchanged and calls neither the      *)
(* oracle nor the verifier.                                                *)
C4_NoOpCycle ==
    ( Ended /\ ClustersOf(before.episodic) = {} )
    => /\ result = "returned"
       /\ episodic = before.episodic
       /\ semantic = before.semantic
       /\ total_consolidations = before.total
       /\ false_consolidations = before.false
       /\ calls = <<>>

C9_ExactlyOnePassPerCluster ==
    Ended =>
       \A c \in ClustersOf(before.episodic) :
          /\ Cardinality(Entries("abstract", c)) = 1
          /\ Cardinality(Entries("dream", c)) = 1
          /\ Cardinality(Entries("verify", c)) = 1
          /\ \A i \in Entries("verify", c) :
                ~calls[i].ok => Entries("add_rule", c) = {}

(* C10 - every record query_episodic returns carries the episode's         *)
(* embedding beside content, metadata and distance, and so does every      *)
(* failure the Cluster step of dream() is about to read.                   *)
C10_RecordsCarryEmbedding ==
    /\ \A rec \in {query_episodic(episodic, QueryText, FetchWindow, FailureFilter)[i] :
                     i \in 1..Len(Fetched(episodic))} :
          {"content", "metadata", "embedding", "distance"} \subseteq DOMAIN rec
    /\ pc = "extract" =>
          \A i \in 1..Len(failures) : "embedding" \in DOMAIN failures[i]

(* C11 - fetch selects the most recent failures: the episodes one dream()  *)
(* cycle considers are exactly the (at most 20) most recently added        *)
(* episodes with outcome FAILURE; no SUCCESS episode enters clustering and *)
(* no older failure is chosen over a newer one.                            *)
C11_FetchMostRecentFailures ==
    pc = "extract" =>
       LET hits == Fetched(episodic)
       IN  /\ {hits[k] : k \in 1..Len(hits)} = MostRecentFailures(episodic, FetchWindow)
           /\ Len(failures) = Len(hits)
           /\ \A k \in 1..Len(failures) :
                 /\ failures[k].content = episodic[hits[k]].content
                 /\ failures[k].metadata.outcome = "FAILURE"

C13_AppendOnlyStore ==
    [][last_call'.op # "clear" =>
         /\ IsPrefix(episodic, episodic')
         /\ IsPrefix(semantic, semantic')
         /\ IF next_id' # next_id
            THEN /\ Len(episodic') + Len(semantic') = Len(episodic) + Len(semantic) + 1
                 /\ \A rec \in {episodic'[i] : i \in Len(episodic)+1..Len(episodic')}
                            \cup {semantic'[i] : i \in Len(semantic)+1..Len(semantic')} :
                       rec.id \notin Ids(episodic) \cup Ids(semantic)
            ELSE episodic' = episodic /\ semantic' = semantic]_vars

C13_Witness ==
    /\ Len(episodic) >= 2
    /\ Len(semantic) >= 1
    /\ last_call.op = "retrieve_context"
    /\ Len(last_call.value) > 2

(* C14 - query_episodic(query, limit, filter) returns at most limit        *)
(* records, each the content and metadata of a stored episode that matches *)
(* every key of the filter, in ascending order of distance to the query;   *)
(* they are the nearest matching records (every matching record strictly   *)
(* closer than a returned one is returned too, and none is left out while  *)
(* there is room); with no matching record the answer is the empty         *)
(* sequence.                                                               *)
C14_QueryEpisodicContract ==
    last_call.op = "query_episodic" =>
       LET q     == embed(last_call.args[1])
           limit == last_call.args[2]
           where == last_call.args[3]
           recs  == last_call.value
           M     == Matching(episodic, where)
       IN  /\ Len(recs) <= limit
           /\ Len(recs) = (IF Cardinality(M) < limit THEN Cardinality(M) ELSE limit)
           /\ \A k \in 1..Len(recs) :
                 /\ Matches(recs[k].metadata, where)
                 /\ \E i \in M :
                       /\ recs[k].content = episodic[i].content
                       /\ recs[k].metadata = episodic[i].metadata
                       /\ recs[k].distance = Distance(episodic[i].embedding, q)
                 /\ \A l \in 1..Len(recs) :
                       k < l => ~DistanceLess(recs[l].distance, recs[k].distance)
                 /\ Cardinality({i \in M : DistanceLess(Distance(episodic[i].embedding, q),
                                                         recs[k].distance)})
                       = Cardinality({l \in 1..Len(recs) :
                                         DistanceLess(recs[l].distance, recs[k].distance)})
           /\ M = {} => recs = <<>>

C14_Witness ==
    /\ last_call.op = "query_episodic"
    /\ last_call.args[3] = FailureFilter
    /\ Len(last_call.value) = last_call.args[2]
    /\ Cardinality(Matching(episodic, FailureFilter)) < Len(episodic)
    /\ \E i \in Matching(episodic, FailureFilter) :
          DistanceLess(last_call.value[Len(last_call.value)].distance,
                       Distance(episodic[i].embedding, embed(last_call.args[1])))

C16_ClearEmptiesBoth ==
    [][/\ last_call'.op = "clear" => episodic' = <<>> /\ semantic' = <<>>
       /\ last_call.op = "clear" =>
             /\ next_id' # next_id =>
                   Len(episodic') + Len(semantic') = 1
             /\ last_call'.op = "retrieve_context" => last_call'.value = <<>>]_vars

C16_Witness ==
    /\ last_call.op = "clear"
    /\ before.episodic # <<>>
    /\ before.semantic # <<>>
    /\ episodic = <<>>
    /\ semantic = <<>>

C20_FailuresAreReported ==
    (exec.pc = "done" /\ exec.proc = "none") =>
       /\ ~exec.ret.raised
       /\ ~exec.ret.success
       /\ exec.ret.output \in {<<StagingError>>, <<LaunchError>>}

(* C21 - whenever execute returns or raises (normal exit, non-zero exit,   *)
(* timeout, exception), the temporary file it created to stage the code no *)
(* longer exists.                                                          *)
C21_TempFileRemoved ==
    exec.pc = "done" => ~exec.file

(* C22 - one call of execute calls subprocess.run at most once, so it      *)
(* spawns at most one process; a call whose code was staged makes exactly  *)
(* one attempt, and a failure or a timeout is never followed by a second   *)
(* run of the code.                                                        *)
C22_SingleAttempt ==
    /\ exec.runs <= 1
    /\ exec.pc \in {"running", "handled"} => exec.runs = 1
    /\ exec.pc = "done" => exec.runs = (IF exec.ret.raised THEN 0 ELSE 1)
    /\ exec.proc # "none" => exec.runs = 1

C22_Witness ==
    /\ exec.pc = "done"
    /\ exec.runs = 1
    /\ exec.proc \in {"exited", "killed"}
    /\ ~exec.ret.success

(* C23 - retrieve_context is a pure read: a call leaves the episodic       *)
(* collection, the semantic collection and the Dreamer counters unchanged, *)
(* and a call that follows a call with the same task and error_type on the *)
(* same store state returns the same text.                                 *)
C23_RetrieveContextIsPureRead ==
    [][last_call'.op = "retrieve_context" =>
         /\ episodic' = episodic
         /\ semantic' = semantic
         /\ total_consolidations' = total_consolidations
         /\ false_consolidations' = false_consolidations
         /\ (last_call.op = "retrieve_context" /\ last_call.args = last_call'.args)
               => last_call'.value = last_call.value]_vars

C23_Witness ==
    /\ last_call.op = "retrieve_context"
    /\ PartsOf(last_call.value, "RULE") # {}
    /\ Cardinality(PartsOf(last_call.value, "EPISODE")) >= 2
    /\ last_call.value = retrieve_context(episodic, semantic, last_call.args[1],
                                          last_call.args[2])

(* C24 - retrieve_context(task, error_type) returns a text built from at   *)
(* most 2 stored rules and at most 3 stored episodes, the episodes only    *)
(* among those whose error_type equals the argument when one is given; the *)
(* rules section comes before the episodes section, each episode carries   *)
(* its recorded outcome, a section without records is left out with its    *)
(* label, and with both empty the text is empty.                           *)
C24_ContextFormat ==
    last_call.op = "retrieve_context" =>
       LET context  == last_call.value
           allowed  == OfErrorType(episodic, last_call.args[2])
           rules    == PartsOf(context, "RULE")
           episodes == PartsOf(context, "EPISODE")
           labels   == PartsOf(context, RulesLabel) \cup PartsOf(context, EpisodesLabel)
       IN  /\ Cardinality(rules) = AtMost(2, Len(semantic))
           /\ Cardinality(episodes) = AtMost(3, Cardinality(allowed))
           /\ \A i \in rules :
                 \E j \in 1..Len(semantic) : context[i] = <<"RULE", semantic[j].content>>
           /\ \A i \in episodes :
                 \E j \in allowed :
                    context[i] = <<"EPISODE", episodic[j].content,
                                   "OUTCOME", episodic[j].metadata.outcome>>
           /\ \A i \in rules, j \in episodes : i < j
           /\ PartsOf(context, RulesLabel) = (IF rules = {} THEN {} ELSE {1})
           /\ PartsOf(context, EpisodesLabel)
                 = (IF episodes = {} THEN {} ELSE {Len(context) - Cardinality(episodes)})
           /\ Len(context) = Cardinality(rules \cup episodes \cup labels)
           /\ (semantic = <<>> /\ allowed = {}) => context = <<>>

C24_Witness ==
    /\ last_call.op = "retrieve_context"
    /\ last_call.args[2] = "RuntimeError"
    /\ semantic # <<>>
    /\ OfErrorType(episodic, "RuntimeError") # {}
    /\ OfErrorType(episodic, "RuntimeError") # 1..Len(episodic)
    /\ PartsOf(last_call.value, "RULE") # {}
    /\ PartsOf(last_call.value, "EPISODE") # {}

(* C26 - scenario A: for 5 failure episodes of which 4 are pairwise within *)
(* cosine distance 0.3 and 1 is farther than 0.3 from all others,          *)
(* clustering with epsilon = 0.3 and minPts = 2 yields exactly one cluster *)
(* that holds the 4 near-duplicates, and labels the outlier as noise.      *)
C26_ScenarioA ==
    \A o \in 1..Len(episodic) :
       (/\ ClusteredWith(last_call, EpsilonNum, EpsilonDen, min_pts)
        /\ Len(episodic) = 5
        /\ NearDuplicatesAndOutlier(Embeddings(episodic), o))
       => /\ Cardinality(unique_clusters(last_call.value)) = 1
          /\ Members(last_call.value) = (1..5) \ {o}
          /\ last_call.value[o] = NOISE

C26_Witness ==
    /\ ClusteredWith(last_call, EpsilonNum, EpsilonDen, min_pts)
    /\ Len(episodic) = 5
    /\ \E o \in 2..4 : NearDuplicatesAndOutlier(Embeddings(episodic), o)
    /\ Cardinality(Members(last_call.value)) = 4

(* C27 - noise monotonicity as stated: for a fixed embedding sequence and  *)
(* any minPts, a clustering run with a lower epsilon never turns a noise   *)
(* point into a cluster member and never puts two episodes that were in    *)
(* different clusters into the same cluster.                               *)
C27_LoweringEpsilonOnlySplits ==
    [][(/\ last_call.op = "_cluster_failures"
        /\ last_call'.op = "_cluster_failures"
        /\ last_call'.args[2] = last_call.args[2]
        /\ last_call'.args[1].num < last_call.args[1].num)
       => /\ Members(last_call'.value) \subseteq Members(last_call.value)
          /\ \A i, j \in Members(last_call'.value) :
                last_call'.value[i] = last_call'.value[j]
                   => last_call.value[i] = last_call.value[j]]_vars

(* C27 amended - for a fixed embedding sequence and any minPts, a          *)
(* clustering run with a lower epsilon never turns a noise point into a    *)
(* cluster member; with minPts of at most 3, the Dreamer's value 2         *)
(* included, it never puts two episodes that were in different clusters    *)
(* into the same cluster either.                                           *)
C27_LoweringEpsilonNeverAddsMembers ==
    [][(/\ last_call.op = "_cluster_failures"
        /\ last_call'.op = "_cluster_failures"
        /\ last_call'.args[2] = last_call.args[2]
        /\ last_call'.args[1].num < last_call.args[1].num)
       => /\ Members(last_call'.value) \subseteq Members(last_call.value)
          /\ last_call.args[2] <= 3 =>
                \A i, j \in Members(last_call'.value) :
                   last_call'.value[i] = last_call'.value[j]
                      => last_call.value[i] = last_call.value[j]]_vars

C27_Witness ==
    /\ ClusteredWith(last_call, 2, EpsilonDen, min_pts)
    /\ Members(last_call.value) # {}
    /\ Cardinality(unique_clusters(last_call.value)) >
          Cardinality(unique_clusters(
              fit_predict(Embeddings(episodic), EpsilonNum, EpsilonDen, min_pts)))

C32_OverlappingCallsIsolated ==
    \A k \in 1..MaxCalls :
       /\ exec.call[k].proc # "none" => exec.call[k].ran = exec.call[k].code
       /\ exec.call[k].pc \in {"staged", "running"} => exec.file = exec.call[k].code

C35_CycleProcessesEveryClusterOnce ==
    ( /\ Ended
      /\ \A i \in EntriesOf("verify") : ~calls[i].raised )
    => /\ result = "returned"
       /\ Processed = ClustersOf(before.episodic)
       /\ \A c \in ClustersOf(before.episodic) :
             Cardinality(Entries("abstract", c)) = 1
       /\ total_consolidations - before.total
             = Cardinality(ClustersOf(before.episodic))
       /\ min_pts * (total_consolidations - before.total)
             <= Len(Fetched(before.episodic))

C37_SleepSwitchOff ==
    ~agent.enable_sleep =>
       /\ agent.at # "sleep"
       /\ pc = "idle"
       /\ result = "none"
       /\ semantic = <<>>
       /\ total_consolidations = 0
       /\ false_consolidations = 0

(* C38 - wake/sleep ordering: a run_task call that has ended added exactly *)
(* one episode, FAILURE iff the executor reported success = false, and     *)
(* returned the executor's success; a successful task never triggers       *)
(* consolidation, and a run triggered by a task follows a failure whose    *)
(* episode is in the store the run fetches from.                           *)
C38_WakeSleepOrdering ==
    /\ (agent.op = "run_task" /\ agent.at = "idle") =>
          /\ agent.added = 1
          /\ episodic # <<>>
          /\ episodic[Len(episodic)].metadata.outcome
                = (IF agent.success THEN "SUCCESS" ELSE "FAILURE")
          /\ agent.value = (IF agent.success THEN "True" ELSE "False")
          /\ agent.success => result = "none"
    /\ (agent.op = "run_task" /\ result # "none") =>
          /\ ~agent.success
          /\ agent.added = 1
          /\ before.episodic = episodic
          /\ episodic[Len(episodic)].metadata.outcome = "FAILURE"

====
